---- MODULE Spec2Model ----
(***************************************************************************)
(* The widget binding layer of src/widget.ts (Backbone models wired to     *)
(* the core Scene / Block / Effect / Data objects, and the SceneView wired  *)
(* to the core Renderer) as a state machine.                               *)
(*                                                                         *)
(* Two layers of state are kept apart, as in the source:                   *)
(*   - the attributes of the widget models (this.get('vertices'), ...),    *)
(*     committed by the host before a change notification is delivered;    *)
(*   - the core objects the models own (this.block, this.component,       *)
(*     this.scene), which only the handlers of widget.ts write.            *)
(* The core classes (./core/...) are imported by widget.ts; their          *)
(* behaviour is taken from the design document and kept in the operators   *)
(* of the section "Core objects".                                          *)
(***************************************************************************)
EXTENDS Integers, Sequences, FiniteSets

VARIABLES
  cfg,          \* which object graph the host constructed
  vertices,     \* PolyMeshModel  -> this.get('vertices')
  array,        \* ComponentModel -> this.get('array')
  input,        \* EffectModel    -> this.get('input')
  min,          \* IsoColorModel / ThresholdModel -> this.get('min')
  max,          \* IsoColorModel / ThresholdModel -> this.get('max')
  value,        \* IsoSurfaceModel -> this.get('value')
  children,     \* SceneModel     -> this.get('children')
  data,         \* BlockModel     -> this.get('data')
  default_color,    \* BlockModel -> this.get('default_color')
  default_alpha,    \* BlockModel -> this.get('default_alpha')
  components,   \* DataModel      -> this.get('components')
  background_color, \* SceneModel -> this.get('background_color')
  block,        \* PolyMeshModel  -> this.block (a core PolyMesh)
  effect,       \* EffectModel    -> this.block (a core Effect)
  component,    \* ComponentModel -> this.component.array
  scene,        \* SceneModel     -> this.scene.children
  appearance,   \* BlockModel     -> this.block.defaultColor, .defaultAlpha
  data_components,  \* DataModel  -> this.data.components
  output,       \* EffectModel    -> the geometry this.block last computed
  view,         \* SceneView: render() called, displayed resolved, listeners
                \* registered, remove() called
  renderer,     \* SceneView      -> this.renderer
  recomputed,   \* Effect -> number of recompute() calls of the last handler
  error         \* the error the last handler raised, "none" if it returned

vars == <<cfg, vertices, array, input, min, max, value, children, data,
          default_color, default_alpha, components, background_color,
          block, effect, component, scene, appearance, data_components, output,
          view, renderer, recomputed, error>>

(***************************************************************************)
(* Bounds of the model.                                                    *)
(***************************************************************************)
\* scene.addChild is never undone: the length of scene.children is capped.
MaxSceneLen == 3

(***************************************************************************)
(* Values.                                                                 *)
(***************************************************************************)
Abs(x) == IF x < 0 THEN -x ELSE x

RECURSIVE SeqMaxAbs(_)
SeqMaxAbs(s) ==
  IF s = <<>> THEN 0
  ELSE LET m == SeqMaxAbs(Tail(s))
       IN IF Abs(Head(s)) > m THEN Abs(Head(s)) ELSE m

Range(s) == {s[i] : i \in 1..Len(s)}

IsDupFree(s) == \A i, j \in 1..Len(s) : i # j => s[i] # s[j]

\* Vertex buffers (flattened x, y, z): points on the x axis, symmetric about
\* the origin, so that the minimal enclosing sphere has its centre at the
\* origin and the largest |coordinate| as its radius.
VertsR1    == <<-1, 0, 0,  1, 0, 0,  0, 0, 0>>
VertsR2    == <<-2, 0, 0,  2, 0, 0,  0, 0, 0>>
VertsR4    == <<-4, 0, 0,  4, 0, 0,  0, 0, 0>>
VertsShort == <<-1, 0, 0,  1, 0, 0>>
VertsLong  == <<-2, 0, 0,  2, 0, 0,  0, 0, 0,  0, 0, 0>>
VertsOdd   == <<1, 0, 0, 1>>

\* Component buffers.
Arr3a == <<1, 2, 3>>
Arr3b == <<4, 5, 6>>
Arr4  == <<1, 2, 3, 4>>

\* Input selectors as they are held in the 'input' attribute: null, a string,
\* or a list of strings.  depth counts the arrays wrapped around the value.
Null       == [kind |-> "null",   names |-> <<>>, depth |-> 0]
Str(n)     == [kind |-> "string", names |-> <<n>>, depth |-> 0]
List(ns)   == [kind |-> "list",   names |-> ns, depth |-> 0]

(***************************************************************************)
(* The object graphs the host constructs.                                  *)
(*   "scene": three PolyMeshModels and a SceneModel.                       *)
(*   "graph": a ComponentModel, a DataModel "u" holding it, a DataModel    *)
(*            "v" of no component, a PolyMeshModel holding both Data, and  *)
(*            one EffectModel on the mesh.                                 *)
(*   "appearance": the models of "graph" with an IsoColorModel, the host   *)
(*            changing 'default_color' and 'default_alpha' as well.        *)
(*   "data":  the ComponentModel, the DataModels and the PolyMeshModel of  *)
(*            "graph", the host changing 'components' and 'data' as well.  *)
(*   "view":  a SceneModel of no child and its SceneView.                  *)
(***************************************************************************)
Configs == {"scene", "graph", "appearance", "data", "view"}

MeshesOf(c) ==
  IF c = "scene" THEN {"m1", "m2", "m3"} ELSE IF c = "view" THEN {} ELSE {"m1"}
EffectsOf(c) == IF c \in {"graph", "appearance"} THEN {"e1"} ELSE {}
ComponentsOf(c) == IF c \in {"graph", "appearance", "data"} THEN {"c1"} ELSE {}

Meshes == MeshesOf(cfg)
Effects == EffectsOf(cfg)
Components == ComponentsOf(cfg)
Blocks == Meshes \cup Effects

EffectKinds == {"IsoColor", "IsoSurface", "Threshold"}

\* DataModel attributes 'name' and 'components' at construction.
DataModels == {"dU", "dV"}
DataName(d) == IF d = "dU" THEN "u" ELSE "v"
DataComponentModels(d) == IF d = "dU" THEN <<"c1">> ELSE <<>>

\* BlockModel attribute 'data' at construction and PolyMeshModel attribute
\* 'triangle_indices'.
DataAttr(c, m) == IF c = "scene" THEN <<>> ELSE <<"dU", "dV">>

TriangleIndicesAttr(m) == <<0, 1, 2>>

\* EffectModel attribute 'parent'.
ParentAttr(e) == "m1"

InitialVertices(c, m) ==
  IF c = "scene"
  THEN (IF m = "m1" THEN VertsR2 ELSE IF m = "m2" THEN VertsR4 ELSE VertsR1)
  ELSE VertsR2

\* What the host may send in a notification.
VertexInputs ==
  IF cfg = "scene" THEN {VertsR1, VertsR2, VertsR4}
  ELSE IF cfg = "appearance" THEN {}
  ELSE {VertsR2, VertsShort, VertsLong, VertsOdd}
ArrayInputs == IF cfg = "appearance" THEN {} ELSE {Arr3b, Arr4}
SelectorInputs == {Null, Str("u"), Str("v"), Str("w"), List(<<"u", "v", "u">>)}
SelectorChanges == IF cfg = "appearance" THEN {Null, Str("u")} ELSE SelectorInputs
ParamInputs == {0, 1}
\* BlockModel defaults: default_color '#6395b0', default_alpha 1.0.
Colors == {"#6395b0", "#ff0000"}
Alphas == {"1.0", "0.5"}
ColorInputs == IF cfg = "appearance" THEN Colors ELSE {}
AlphaInputs == IF cfg = "appearance" THEN Alphas ELSE {}
DataInputs == IF cfg = "data" THEN {<<"dU">>, <<"dU", "dV">>} ELSE {}
ComponentsInputs == IF cfg = "data" THEN {<<>>, <<"c1">>} ELSE {}
\* SceneModel default: background_color '#fff'.
BackgroundColors == {"#fff", "#000"}
BackgroundInputs == IF cfg = "view" THEN BackgroundColors ELSE {}
Views == IF cfg = "view" THEN {"v1"} ELSE {}
PhosphorMessages == IF cfg = "view" THEN {"resize", "after-show", "before-hide"} ELSE {}
ChildrenListsOf(c) ==
  {s \in UNION {[1..n -> MeshesOf(c)] : n \in 0..Cardinality(MeshesOf(c))} : IsDupFree(s)}
ChildrenInputs == ChildrenListsOf(cfg)

(***************************************************************************)
(* Core objects (./core/Block, ./core/MeshBlock, ./core/Data,              *)
(* ./core/EffectBlock, ./core/Scene), after the design document.           *)
(* An operation yields [obj, error, recompute]: the object after the       *)
(* call, the error raised ("none" when it returned), and whether the       *)
(* dependent computation ran.  A failed operation yields the object it     *)
(* was given.                                                              *)
(***************************************************************************)
Ok(o, r) == [obj |-> o, error |-> "none", recompute |-> r]
Fail(o, e) == [obj |-> o, error |-> e, recompute |-> FALSE]

VertexCount(V) == Len(V) \div 3

BoundingSphereRadius(V) == SeqMaxAbs(V)

\* 1 / r as a fraction; r = 0 stands for the IEEE result Infinity.
Reciprocal(r) == [num |-> 1, den |-> r]

Vector3(x, y, z) == <<x, y, z>>

DefaultScale == Vector3(Reciprocal(1), Reciprocal(1), Reciprocal(1))

\* A component built by new Component(name, array) is a scalar field.
ComponentArity == 1

IndicesInRange(I, V) == \A i \in 1..Len(I) : I[i] < VertexCount(V)

NewPolyMesh(V, I, D) ==
  [vertices |-> V, triangleIndices |-> I, data |-> D, scale |-> DefaultScale]

\* PolyMesh: block.vertices = V
SetVertices(blk, V) ==
  IF Len(V) % 3 # 0 THEN Fail(blk, "DimensionMismatch")
  ELSE IF ~IndicesInRange(blk.triangleIndices, V) THEN Fail(blk, "IndexOutOfRange")
  ELSE Ok([blk EXCEPT !.vertices = V], TRUE)

\* The Data objects that hold component c, and the Blocks that hold them.
DataHolding(c) == {d \in DataModels : c \in Range(DataComponentModels(d))}
BlocksHolding(blocks, c) ==
  {m \in DOMAIN blocks : Range(blocks[m].data) \cap DataHolding(c) # {}}

\* Component: component.array = A
ReplaceArray(blocks, c, old, A) ==
  IF Len(A) % ComponentArity # 0 THEN Fail(old, "DimensionMismatch")
  ELSE IF \E m \in BlocksHolding(blocks, c) :
            VertexCount(blocks[m].vertices) # Len(A) \div ComponentArity
       THEN Fail(old, "DimensionMismatch")
  ELSE Ok(A, TRUE)

FieldNames(D) == {DataName(d) : d \in Range(D)}

\* The dimension a selector's shape stands for: a field name, or a list of
\* three field names; 0 for any other shape.
InputDimensionOf(sel) ==
  IF sel.depth = 0 /\ sel.kind = "string" THEN 1
  ELSE IF sel.depth = 0 /\ sel.kind = "list" /\ Len(sel.names) = 3 THEN 3
  ELSE 0

\* A selector that names no field at all: null, or arrays around null.
IsUnset(sel) == sel.kind = "null"

BindInput(eff, parentData, sel) ==
  IF InputDimensionOf(sel) = 0 THEN Fail(eff, "UnknownField")
  ELSE IF ~(Range(sel.names) \subseteq FieldNames(parentData))
       THEN Fail(eff, "UnknownField")
  ELSE Ok([eff EXCEPT !.input = sel, !.inputDimension = InputDimensionOf(sel)], TRUE)

SetInput(eff, parentData, sel) ==
  IF eff.inputDimension = 0 THEN Ok(eff, FALSE)
  ELSE BindInput(eff, parentData, sel)

Unbound(kind, parent, mn, mx, val) ==
  [kind |-> kind, parent |-> parent, input |-> Null, inputDimension |-> 0,
   min |-> mn, max |-> mx, value |-> val]

NewEffect(kind, parent, parentData, sel, mn, mx, val) ==
  IF IsUnset(sel) THEN Ok(Unbound(kind, parent, mn, mx, val), FALSE)
  ELSE BindInput(Unbound(kind, parent, mn, mx, val), parentData, sel)

\* Parameter setters: no re-resolution of the input, only recompute().
SetMin(eff, x) == Ok([eff EXCEPT !.min = x], eff.inputDimension # 0)
SetMax(eff, x) == Ok([eff EXCEPT !.max = x], eff.inputDimension # 0)
SetValue(eff, x) == Ok([eff EXCEPT !.value = x], eff.inputDimension # 0)

\* The Effects recomputed after the vertices of block m were replaced.
DependentsOfBlock(effs, m) ==
  {e \in DOMAIN effs : effs[e].parent = m /\ effs[e].inputDimension # 0}

\* The Effects recomputed after the array of component c was replaced: the
\* ones whose bound selector names a Data of the parent that holds c.
DependentsOfComponent(effs, blocks, c) ==
  {e \in DOMAIN effs :
     /\ effs[e].inputDimension # 0
     /\ \E d \in Range(blocks[effs[e].parent].data) \cap DataHolding(c) :
          DataName(d) \in Range(effs[e].input.names)}

\* Scene.addChild
AddChild(sc, b) == Append(sc, b)

\* The geometry an Effect computed: the vertex buffer, the connectivity, the
\* per-vertex colour buffer (IsoColor) and the level it was extracted at
\* (IsoSurface).  An Effect that never computed holds the empty mesh.
EmptyMesh == [vertices |-> <<>>, indices |-> <<>>, colors |-> <<>>, iso |-> <<>>]

\* The values of the scalar field a Bound Effect reads: the array of the
\* component of the Data of the parent that the selector names.
FieldOf(eff, blocks, dcomps, comps) ==
  LET ds == {d \in Range(blocks[eff.parent].data) : DataName(d) \in Range(eff.input.names)}
      d == CHOOSE x \in ds : TRUE
  IN IF ds = {} THEN <<>>
     ELSE IF dcomps[d] = <<>> THEN <<>>
     ELSE comps[dcomps[d][1]]

SeqMin(f) == CHOOSE x \in Range(f) : \A y \in Range(f) : x <= y
SeqMax(f) == CHOOSE x \in Range(f) : \A y \in Range(f) : x >= y

\* The number of elements of K below i: the index i is remapped to.
Rank(K, i) == Cardinality({j \in K : j < i})
Nth(K, r) == CHOOSE i \in K : Rank(K, i) = r

\* IsoColor.recompute: the geometry of the parent, and a colour per vertex,
\* clamped to the ends of the ramp.
IsoColorOutput(V, I, f, mn, mx) ==
  [vertices |-> V, indices |-> I,
   colors |-> [i \in 1..VertexCount(V) |->
                 IF i > Len(f) THEN "default"
                 ELSE IF f[i] <= mn THEN "low"
                 ELSE IF f[i] >= mx THEN "high"
                 ELSE "ramp"],
   iso |-> <<>>]

\* IsoSurface.recompute: the empty mesh for a value outside the range of
\* the field; the polygonization is identified by the cells it is
\* extracted from and its level.
IsoSurfaceOutput(V, I, f, val) ==
  IF f = <<>> \/ val < SeqMin(f) \/ val > SeqMax(f) THEN EmptyMesh
  ELSE [vertices |-> V, indices |-> I, colors |-> <<>>, iso |-> <<val>>]

\* Threshold.recompute: the vertices whose scalar lies in [min, max], the
\* triangles of retained vertices only, indices remapped.
ThresholdOutput(V, I, f, mn, mx) ==
  LET K == {i \in 0..(VertexCount(V) - 1) : i + 1 <= Len(f) /\ mn <= f[i + 1] /\ f[i + 1] <= mx}
      T == {t \in 0..(Len(I) \div 3 - 1) : \A j \in 1..3 : I[3 * t + j] \in K}
  IN IF mn > mx THEN EmptyMesh
     ELSE [vertices |-> [k \in 1..(3 * Cardinality(K)) |->
                           V[3 * Nth(K, (k - 1) \div 3) + ((k - 1) % 3) + 1]],
           indices |-> [k \in 1..(3 * Cardinality(T)) |->
                          Rank(K, I[3 * Nth(T, (k - 1) \div 3) + ((k - 1) % 3) + 1])],
           colors |-> <<>>, iso |-> <<>>]

\* Effect.recompute(), from the parent, the bound input and the parameters
\* as they are at the call.
Recompute(eff, blocks, dcomps, comps) ==
  LET V == blocks[eff.parent].vertices
      I == blocks[eff.parent].triangleIndices
      f == FieldOf(eff, blocks, dcomps, comps)
  IN IF eff.kind = "IsoColor" THEN IsoColorOutput(V, I, f, eff.min, eff.max)
     ELSE IF eff.kind = "IsoSurface" THEN IsoSurfaceOutput(V, I, f, eff.value)
     ELSE ThresholdOutput(V, I, f, eff.min, eff.max)

\* Block: the appearance a constructor leaves (the defaults of the widget
\* models: opaque, '#6395b0'); block.defaultColor = c; block.defaultAlpha = a.
NewAppearance == [defaultColor |-> "#6395b0", defaultAlpha |-> "1.0"]
SetDefaultColor(app, c) == [app EXCEPT !.defaultColor = c]
SetDefaultAlpha(app, a) == [app EXCEPT !.defaultAlpha = a]

\* Renderer: new Renderer(el, scene), and the methods of its contract.
\* The record keeps whether a method was invoked before initialize()
\* (early) or after dispose() (late).
NoRenderer ==
  [created |-> FALSE, initialized |-> 0, disposed |-> FALSE,
   backgroundColor |-> "unset", early |-> FALSE, late |-> FALSE]
NewRenderer == [NoRenderer EXCEPT !.created = TRUE]
Invoked(r) ==
  [r EXCEPT !.early = @ \/ r.initialized = 0, !.late = @ \/ r.disposed]
Renderer_initialize(r) ==
  [r EXCEPT !.initialized = @ + 1, !.late = @ \/ r.disposed]
Renderer_resize(r) == Invoked(r)
Renderer_setBackgroundColor(r, c) == [Invoked(r) EXCEPT !.backgroundColor = c]
Renderer_dispose(r) == [Invoked(r) EXCEPT !.disposed = TRUE]

(***************************************************************************)
(* The widget models of widget.ts.                                         *)
(***************************************************************************)
\* DataModel.initialize: the Data holds componentModel.component of every
\* model of the 'components' attribute, in order.
DataComponents(d) == [i \in 1..Len(DataComponentModels(d)) |-> DataComponentModels(d)[i]]

\* BlockModel.data: dataModel.data of every model of the 'data' attribute.
BlockData(c, m) == [i \in 1..Len(DataAttr(c, m)) |-> DataAttr(c, m)[i]]

\* PolyMeshModel.triangleIndices
triangleIndices(m) == TriangleIndicesAttr(m)

\* Mutants of PolyMeshModel.createBlock: a constructor argument left out.
PolyMesh_createBlock_noIndices(c, m, V) == NewPolyMesh(V, <<>>, BlockData(c, m))
PolyMesh_createBlock_noData(c, m, V) == NewPolyMesh(V, triangleIndices(m), <<>>)

\* PolyMeshModel.createBlock
PolyMesh_createBlock(c, m, V) == NewPolyMesh(V, triangleIndices(m), BlockData(c, m))

\* IsoColorModel.input, IsoSurfaceModel.input, ThresholdModel.input:
\* typeof input == 'string' ? input : [input]
get_input(raw) ==
  IF raw.kind = "string" THEN raw ELSE [raw EXCEPT !.depth = @ + 1]

\* IsoColorModel.createBlock, IsoSurfaceModel.createBlock,
\* ThresholdModel.createBlock: the parameters a model does not have are 0.
Effect_createBlock(kind, parent, parentData, raw, mn, mx, val) ==
  NewEffect(kind, parent, parentData, get_input(raw),
            IF kind = "IsoSurface" THEN 0 ELSE mn,
            IF kind = "IsoSurface" THEN 0 ELSE mx,
            IF kind = "IsoSurface" THEN val ELSE 0)

\* Mutants of EffectModel.updateInput: the guard on inputDimension dropped
\* and the selector bound; the selector assigned as the other handlers
\* assign their property.
updateInput_bind(eff, parentData, raw) == BindInput(eff, parentData, get_input(raw))
updateInput_assign(eff, parentData, raw) ==
  IF eff.inputDimension # 0
  THEN Ok([eff EXCEPT !.input = get_input(raw)], TRUE)
  ELSE Ok(eff, FALSE)

\* EffectModel.updateInput
updateInput(eff, parentData, raw) ==
  IF eff.inputDimension # 0
  THEN SetInput(eff, parentData, get_input(raw))
  ELSE Ok(eff, FALSE)

\* BlockModel.initialize: this.block = this.createBlock();
\* this.block.defaultColor = this.defaultColor.  created is the appearance
\* the constructor left.
BlockModel_initialize(created, color) == SetDefaultColor(created, color)

RECURSIVE MaxOf(_)
\* Math.max(...radii); Math.max() of no argument is -Infinity, whose
\* reciprocal -0 is never assigned to a block.
MaxOf(s) ==
  IF s = <<>> THEN 0
  ELSE LET m == MaxOf(Tail(s)) IN IF Len(s) = 1 \/ Head(s) > m THEN Head(s) ELSE m

\* Mutant of the scale of updateChildren: the radius of the first block
\* instead of the largest.
ChildrenScale_first(blocks, list) ==
  LET r == BoundingSphereRadius(blocks[list[1]].vertices)
  IN Vector3(Reciprocal(r), Reciprocal(r), Reciprocal(r))

\* SceneModel.updateChildren: the scale computed from the new list.
ChildrenScale(blocks, list) ==
  LET radii == [i \in 1..Len(list) |-> BoundingSphereRadius(blocks[list[i]].vertices)]
      r == MaxOf(radii)
  IN Vector3(Reciprocal(r), Reciprocal(r), Reciprocal(r))

\* SceneModel.updateChildren: block.scale = scale for every block of the list.
ScaledBlocks(blocks, list) ==
  [m \in DOMAIN blocks |->
     IF m \in Range(list)
     THEN [blocks[m] EXCEPT !.scale = ChildrenScale(blocks, list)]
     ELSE blocks[m]]

RECURSIVE AddChildren(_, _)
\* SceneModel.updateChildren: this.scene.addChild(block) for every block.
AddChildren(sc, list) ==
  IF list = <<>> THEN sc ELSE AddChildren(AddChild(sc, Head(list)), Tail(list))

(***************************************************************************)
(* The state after the host constructed the models: ComponentModels,       *)
(* DataModels, PolyMeshModels, the EffectModel, the SceneModel.  A model   *)
(* whose createBlock throws does not exist.                                *)
(***************************************************************************)
Init ==
  \E c \in Configs, kind \in EffectKinds, raw \in SelectorInputs :
  \E list \in ChildrenListsOf(c), color \in Colors, alpha \in Alphas :
    LET blocks0 == [m \in MeshesOf(c) |-> PolyMesh_createBlock(c, m, InitialVertices(c, m))]
        made == Effect_createBlock(kind, ParentAttr("e1"), blocks0[ParentAttr("e1")].data,
                                   raw, 0, 0, 0)
        dcomps0 == [d \in DataModels |-> DataComponents(d)]
        comps0 == [k \in ComponentsOf(c) |-> Arr3a]
    IN /\ c = "scene" => (kind = "IsoColor" /\ raw = Null)
       /\ c = "graph" => (list = <<>> /\ made.error = "none")
       /\ c = "appearance" =>
            (kind = "IsoColor" /\ raw \in {Null, Str("u")} /\ list = <<>> /\ made.error = "none")
       /\ c \in {"data", "view"} => (kind = "IsoColor" /\ raw = Null /\ list = <<>>)
       /\ c # "appearance" => (color = "#6395b0" /\ alpha = "1.0")
       /\ cfg = c
       /\ data = [m \in MeshesOf(c) |-> DataAttr(c, m)]
       /\ default_color = [b \in MeshesOf(c) \cup EffectsOf(c) |-> color]
       /\ default_alpha = [b \in MeshesOf(c) \cup EffectsOf(c) |-> alpha]
       /\ appearance = [b \in MeshesOf(c) \cup EffectsOf(c) |->
                          BlockModel_initialize(NewAppearance, color)]
       /\ components = [d \in DataModels |-> DataComponentModels(d)]
       /\ data_components = dcomps0
       /\ output = [e \in EffectsOf(c) |->
                      IF made.recompute THEN Recompute(made.obj, blocks0, dcomps0, comps0)
                      ELSE EmptyMesh]
       /\ background_color = "#fff"
       /\ view = [rendered |-> FALSE, resolved |-> FALSE, listening |-> FALSE,
                  removed |-> FALSE]
       /\ renderer = NoRenderer
       /\ vertices = [m \in MeshesOf(c) |-> InitialVertices(c, m)]
       /\ array = comps0
       /\ component = comps0
       /\ input = [e \in EffectsOf(c) |-> raw]
       /\ min = [e \in EffectsOf(c) |-> 0]
       /\ max = [e \in EffectsOf(c) |-> 0]
       /\ value = [e \in EffectsOf(c) |-> 0]
       /\ effect = [e \in EffectsOf(c) |-> made.obj]
       /\ children = list
       /\ block = ScaledBlocks(blocks0, list)
       /\ scene = AddChildren(<<>>, list)
       /\ recomputed = [e \in EffectsOf(c) |-> IF made.recompute THEN 1 ELSE 0]
       /\ error = "none"

(***************************************************************************)
(* Notifications.  The host commits the new attribute value, and the       *)
(* 'change:<attribute>' handler runs if the value differs from the old     *)
(* one.  A handler that throws leaves the attribute committed.             *)
(***************************************************************************)
Recomputes(set) == [e \in Effects |-> IF e \in set THEN 1 ELSE 0]

\* The outputs after the Effects of set ran recompute() on the state the
\* handler leaves.
Outputs(set) ==
  [e \in Effects |->
     IF e \in set THEN Recompute(effect'[e], block', data_components', component')
     ELSE output[e]]

\* PolyMeshModel: this.on('change:vertices', ...)
ChangeVertices(m, V) ==
  LET r == SetVertices(block[m], V)
  IN /\ V # vertices[m]
     /\ vertices' = [vertices EXCEPT ![m] = V]
     /\ block' = [block EXCEPT ![m] = r.obj]
     /\ recomputed' = Recomputes(IF r.recompute THEN DependentsOfBlock(effect, m) ELSE {})
     /\ error' = r.error
     /\ UNCHANGED <<cfg, array, input, min, max, value, children, effect, component, scene>>
     /\ UNCHANGED <<data, default_color, default_alpha, components, background_color,
                  appearance, data_components, view, renderer>>
     /\ output' = Outputs(IF r.recompute THEN DependentsOfBlock(effect, m) ELSE {})

\* ComponentModel: this.on('change:array', ...)
ChangeArray(c, A) ==
  LET r == ReplaceArray(block, c, component[c], A)
  IN /\ A # array[c]
     /\ array' = [array EXCEPT ![c] = A]
     /\ component' = [component EXCEPT ![c] = r.obj]
     /\ recomputed' = Recomputes(IF r.recompute
                                 THEN DependentsOfComponent(effect, block, c) ELSE {})
     /\ error' = r.error
     /\ UNCHANGED <<cfg, vertices, input, min, max, value, children, block, effect, scene>>
     /\ UNCHANGED <<data, default_color, default_alpha, components, background_color,
                  appearance, data_components, view, renderer>>
     /\ output' = Outputs(IF r.recompute
                          THEN DependentsOfComponent(effect, block, c) ELSE {})

\* EffectModel: this.on('change:input', this.updateInput.bind(this))
ChangeInput(e, raw) ==
  LET r == updateInput(effect[e], block[effect[e].parent].data, raw)
  IN /\ raw # input[e]
     /\ input' = [input EXCEPT ![e] = raw]
     /\ effect' = [effect EXCEPT ![e] = r.obj]
     /\ recomputed' = Recomputes(IF r.recompute THEN {e} ELSE {})
     /\ error' = r.error
     /\ UNCHANGED <<cfg, vertices, array, min, max, value, children, block, component, scene>>
     /\ UNCHANGED <<data, default_color, default_alpha, components, background_color,
                  appearance, data_components, view, renderer>>
     /\ output' = Outputs(IF r.recompute THEN {e} ELSE {})

\* Mutant of the 'change:min' wiring: no listener registered.
ChangeMin_unwired(e, x) ==
  /\ effect[e].kind \in {"IsoColor", "Threshold"}
  /\ x # min[e]
  /\ min' = [min EXCEPT ![e] = x]
  /\ recomputed' = [f \in Effects |-> 0]
  /\ error' = "none"
  /\ UNCHANGED <<cfg, vertices, array, input, max, value, children, block, effect, component, scene>>
  /\ UNCHANGED <<data, default_color, default_alpha, components, background_color,
               appearance, data_components, view, renderer>>
  /\ output' = output

\* Mutant of the 'change:min' handler: the value assigned to block.max.
ChangeMin_toMax(e, x) ==
  LET r == SetMax(effect[e], x)
  IN /\ effect[e].kind \in {"IsoColor", "Threshold"}
     /\ x # min[e]
     /\ min' = [min EXCEPT ![e] = x]
     /\ effect' = [effect EXCEPT ![e] = r.obj]
     /\ recomputed' = Recomputes(IF r.recompute THEN {e} ELSE {})
     /\ error' = r.error
     /\ UNCHANGED <<cfg, vertices, array, input, max, value, children, block, component, scene>>
     /\ UNCHANGED <<data, default_color, default_alpha, components, background_color,
                  appearance, data_components, view, renderer>>
     /\ output' = Outputs(IF r.recompute THEN {e} ELSE {})

\* IsoColorModel, ThresholdModel: this.on('change:min', ...)
ChangeMin(e, x) ==
  LET r == SetMin(effect[e], x)
  IN /\ effect[e].kind \in {"IsoColor", "Threshold"}
     /\ x # min[e]
     /\ min' = [min EXCEPT ![e] = x]
     /\ effect' = [effect EXCEPT ![e] = r.obj]
     /\ recomputed' = Recomputes(IF r.recompute THEN {e} ELSE {})
     /\ error' = r.error
     /\ UNCHANGED <<cfg, vertices, array, input, max, value, children, block, component, scene>>
     /\ UNCHANGED <<data, default_color, default_alpha, components, background_color,
                  appearance, data_components, view, renderer>>
     /\ output' = Outputs(IF r.recompute THEN {e} ELSE {})

\* Mutant of the 'change:max' handler: the recompute left to a later
\* turn of the event loop.
ChangeMax_deferred(e, x) ==
  LET r == SetMax(effect[e], x)
  IN /\ effect[e].kind \in {"IsoColor", "Threshold"}
     /\ x # max[e]
     /\ max' = [max EXCEPT ![e] = x]
     /\ effect' = [effect EXCEPT ![e] = r.obj]
     /\ recomputed' = Recomputes({})
     /\ error' = r.error
     /\ UNCHANGED <<cfg, vertices, array, input, min, value, children, block, component, scene>>
     /\ UNCHANGED <<data, default_color, default_alpha, components, background_color,
                  appearance, data_components, view, renderer>>
     /\ output' = output

\* IsoColorModel, ThresholdModel: this.on('change:max', ...)
ChangeMax(e, x) ==
  LET r == SetMax(effect[e], x)
  IN /\ effect[e].kind \in {"IsoColor", "Threshold"}
     /\ x # max[e]
     /\ max' = [max EXCEPT ![e] = x]
     /\ effect' = [effect EXCEPT ![e] = r.obj]
     /\ recomputed' = Recomputes(IF r.recompute THEN {e} ELSE {})
     /\ error' = r.error
     /\ UNCHANGED <<cfg, vertices, array, input, min, value, children, block, component, scene>>
     /\ UNCHANGED <<data, default_color, default_alpha, components, background_color,
                  appearance, data_components, view, renderer>>
     /\ output' = Outputs(IF r.recompute THEN {e} ELSE {})

\* IsoSurfaceModel: this.on('change:value', ...)
ChangeValue(e, x) ==
  LET r == SetValue(effect[e], x)
  IN /\ effect[e].kind = "IsoSurface"
     /\ x # value[e]
     /\ value' = [value EXCEPT ![e] = x]
     /\ effect' = [effect EXCEPT ![e] = r.obj]
     /\ recomputed' = Recomputes(IF r.recompute THEN {e} ELSE {})
     /\ error' = r.error
     /\ UNCHANGED <<cfg, vertices, array, input, min, max, children, block, component, scene>>
     /\ UNCHANGED <<data, default_color, default_alpha, components, background_color,
                  appearance, data_components, view, renderer>>
     /\ output' = Outputs(IF r.recompute THEN {e} ELSE {})

\* SceneModel.updateChildren, the new list being committed
updateChildren(list) ==
  /\ block' = ScaledBlocks(block, list)
  /\ scene' = AddChildren(scene, list)

\* SceneModel: this.on('change:children', this.updateChildren.bind(this))
ChangeChildren(list) ==
  /\ list # children
  /\ Len(scene) + Len(list) <= MaxSceneLen
  /\ children' = list
  /\ updateChildren(list)
  /\ recomputed' = Recomputes({})
  /\ error' = "none"
  /\ UNCHANGED <<cfg, vertices, array, input, min, max, value, effect, component>>
  /\ UNCHANGED <<data, default_color, default_alpha, components, background_color,
               appearance, data_components, view, renderer>>

  /\ output' = output
\* BlockModel: the 'data' attribute has no listener.
ChangeData(m, list) ==
  /\ list # data[m]
  /\ data' = [data EXCEPT ![m] = list]
  /\ recomputed' = Recomputes({})
  /\ error' = "none"
  /\ UNCHANGED <<cfg, vertices, array, input, min, max, value, children, block, effect,
               component, scene, output>>
  /\ UNCHANGED <<default_color, default_alpha, components, background_color,
               appearance, data_components, view, renderer>>

\* Mutant of the 'change:default_color' handler: both appearance
\* properties assigned.
ChangeDefaultColor_both(b, c) ==
  /\ c # default_color[b]
  /\ default_color' = [default_color EXCEPT ![b] = c]
  /\ appearance' = [appearance EXCEPT
                      ![b] = SetDefaultAlpha(SetDefaultColor(@, default_color'[b]),
                                             default_alpha[b])]
  /\ recomputed' = Recomputes({})
  /\ error' = "none"
  /\ UNCHANGED <<cfg, vertices, array, input, min, max, value, children, block, effect,
               component, scene, output>>
  /\ UNCHANGED <<data, default_alpha, components, background_color,
               data_components, view, renderer>>

\* BlockModel: this.on('change:default_color', ...)
ChangeDefaultColor(b, c) ==
  /\ c # default_color[b]
  /\ default_color' = [default_color EXCEPT ![b] = c]
  /\ appearance' = [appearance EXCEPT ![b] = SetDefaultColor(@, default_color'[b])]
  /\ recomputed' = Recomputes({})
  /\ error' = "none"
  /\ UNCHANGED <<cfg, vertices, array, input, min, max, value, children, block, effect,
               component, scene, output>>
  /\ UNCHANGED <<data, default_alpha, components, background_color,
               data_components, view, renderer>>

\* BlockModel: this.on('change:default_alpha', ...)
ChangeDefaultAlpha(b, a) ==
  /\ a # default_alpha[b]
  /\ default_alpha' = [default_alpha EXCEPT ![b] = a]
  /\ appearance' = [appearance EXCEPT ![b] = SetDefaultAlpha(@, default_alpha'[b])]
  /\ recomputed' = Recomputes({})
  /\ error' = "none"
  /\ UNCHANGED <<cfg, vertices, array, input, min, max, value, children, block, effect,
               component, scene, output>>
  /\ UNCHANGED <<data, default_color, components, background_color,
               data_components, view, renderer>>

\* Mutant of DataModel: a 'change:components' listener that rebuilds the
\* Data from the new list.
ChangeComponents_rebuild(d, list) ==
  /\ list # components[d]
  /\ components' = [components EXCEPT ![d] = list]
  /\ data_components' = [data_components EXCEPT ![d] = components'[d]]
  /\ recomputed' = Recomputes({})
  /\ error' = "none"
  /\ UNCHANGED <<cfg, vertices, array, input, min, max, value, children, block, effect,
               component, scene, output>>
  /\ UNCHANGED <<data, default_color, default_alpha, background_color,
               appearance, view, renderer>>

\* DataModel: the 'components' attribute has no listener.
ChangeComponents(d, list) ==
  /\ list # components[d]
  /\ components' = [components EXCEPT ![d] = list]
  /\ recomputed' = Recomputes({})
  /\ error' = "none"
  /\ UNCHANGED <<cfg, vertices, array, input, min, max, value, children, block, effect,
               component, scene, output>>
  /\ UNCHANGED <<data, default_color, default_alpha, background_color,
               appearance, data_components, view, renderer>>

\* SceneView.render: this.renderer = new Renderer(this.el, this.model.scene);
\* this.displayed.then(...)
Render ==
  /\ ~view.rendered
  /\ ~view.removed
  /\ view' = [view EXCEPT !.rendered = TRUE]
  /\ renderer' = NewRenderer
  /\ error' = "none"
  /\ UNCHANGED <<cfg, vertices, array, input, min, max, value, children, block, effect,
               component, scene, output, recomputed>>
  /\ UNCHANGED <<data, default_color, default_alpha, components, background_color,
               appearance, data_components>>

\* The host resolves the promise this.displayed.
DisplayedResolves ==
  /\ ~view.resolved
  /\ view' = [view EXCEPT !.resolved = TRUE]
  /\ error' = "none"
  /\ UNCHANGED <<cfg, vertices, array, input, min, max, value, children, block, effect,
               component, scene, output, recomputed>>
  /\ UNCHANGED <<data, default_color, default_alpha, components, background_color,
               appearance, data_components, renderer>>

\* Mutant of the callback of this.displayed.then: the background colour
\* left to the 'change:background_color' listener.
DisplayedCallback_noColor ==
  /\ view.rendered
  /\ view.resolved
  /\ ~view.listening
  /\ renderer' = Renderer_initialize(renderer)
  /\ view' = [view EXCEPT !.listening = TRUE]
  /\ error' = "none"
  /\ UNCHANGED <<cfg, vertices, array, input, min, max, value, children, block, effect,
               component, scene, output, recomputed>>
  /\ UNCHANGED <<data, default_color, default_alpha, components, background_color,
               appearance, data_components>>

\* SceneView.render, the callback of this.displayed.then:
\* this.renderer.initialize(); this.renderer.backgroundColor =
\* this.model.get('background_color'); this.initEventListeners()
DisplayedCallback ==
  /\ view.rendered
  /\ view.resolved
  /\ ~view.listening
  /\ renderer' = Renderer_setBackgroundColor(Renderer_initialize(renderer), background_color)
  /\ view' = [view EXCEPT !.listening = TRUE]
  /\ error' = "none"
  /\ UNCHANGED <<cfg, vertices, array, input, min, max, value, children, block, effect,
               component, scene, output, recomputed>>
  /\ UNCHANGED <<data, default_color, default_alpha, components, background_color,
               appearance, data_components>>

\* SceneView.resize: this.renderer.resize(); this.renderer is undefined
\* before render().
SceneView_resize ==
  IF view.rendered
  THEN renderer' = Renderer_resize(renderer) /\ error' = "none"
  ELSE renderer' = renderer /\ error' = "TypeError"

\* SceneView.processPhosphorMessage; the phosphor widget of a removed view
\* is disposed and receives no message.
ProcessPhosphorMessage(type) ==
  /\ ~view.removed
  /\ IF type \in {"resize", "after-show"}
     THEN SceneView_resize
     ELSE renderer' = renderer /\ error' = "none"
  /\ UNCHANGED <<cfg, vertices, array, input, min, max, value, children, block, effect,
               component, scene, output, recomputed>>
  /\ UNCHANGED <<data, default_color, default_alpha, components, background_color,
               appearance, data_components, view>>

\* SceneView.initEventListeners: window.addEventListener('resize',
\* this.resize.bind(this), false); the listener is never removed.
WindowResize ==
  /\ view.listening
  /\ SceneView_resize
  /\ UNCHANGED <<cfg, vertices, array, input, min, max, value, children, block, effect,
               component, scene, output, recomputed>>
  /\ UNCHANGED <<data, default_color, default_alpha, components, background_color,
               appearance, data_components, view>>

\* SceneView.initEventListeners: this.model.on('change:background_color',
\* ...); the listener is never removed.
ChangeBackgroundColor(c) ==
  /\ c # background_color
  /\ background_color' = c
  /\ renderer' = IF view.listening
                 THEN Renderer_setBackgroundColor(renderer, background_color')
                 ELSE renderer
  /\ error' = "none"
  /\ UNCHANGED <<cfg, vertices, array, input, min, max, value, children, block, effect,
               component, scene, output, recomputed>>
  /\ UNCHANGED <<data, default_color, default_alpha, components,
               appearance, data_components, view>>

\* SceneView.remove: this.renderer.dispose(); return super.remove()
Remove ==
  /\ ~view.removed
  /\ IF view.rendered
     THEN /\ renderer' = Renderer_dispose(renderer)
          /\ view' = [view EXCEPT !.removed = TRUE]
          /\ error' = "none"
     ELSE /\ renderer' = renderer
          /\ view' = view
          /\ error' = "TypeError"
  /\ UNCHANGED <<cfg, vertices, array, input, min, max, value, children, block, effect,
               component, scene, output, recomputed>>
  /\ UNCHANGED <<data, default_color, default_alpha, components, background_color,
               appearance, data_components>>

Next ==
  \/ \E m \in Meshes, V \in VertexInputs : ChangeVertices(m, V)
  \/ \E c \in Components, A \in ArrayInputs : ChangeArray(c, A)
  \/ \E e \in Effects, raw \in SelectorChanges : ChangeInput(e, raw)
  \/ \E e \in Effects, x \in ParamInputs : ChangeMin(e, x)
  \/ \E e \in Effects, x \in ParamInputs : ChangeMax(e, x)
  \/ \E e \in Effects, x \in ParamInputs : ChangeValue(e, x)
  \/ \E list \in ChildrenInputs : ChangeChildren(list)
  \/ \E m \in Meshes, list \in DataInputs : ChangeData(m, list)
  \/ \E b \in Blocks, c \in ColorInputs : ChangeDefaultColor(b, c)
  \/ \E b \in Blocks, a \in AlphaInputs : ChangeDefaultAlpha(b, a)
  \/ \E d \in DataModels, list \in ComponentsInputs : ChangeComponents(d, list)
  \/ \E v \in Views : Render
  \/ \E v \in Views : DisplayedResolves
  \/ \E v \in Views : DisplayedCallback
  \/ \E type \in PhosphorMessages : ProcessPhosphorMessage(type)
  \/ \E v \in Views : WindowResize
  \/ \E c \in BackgroundInputs : ChangeBackgroundColor(c)
  \/ \E v \in Views : Remove

Spec == Init /\ [][Next]_vars

(***************************************************************************)
(* Properties.                                                             *)
(***************************************************************************)
Bound(e) == effect[e].inputDimension # 0

\* The field names of the Data the parent model of e holds, and the
\* component models of the Data the bound selector of e names.
ParentFieldNames(e) == {DataName(d) : d \in Range(DataAttr(cfg, ParentAttr(e)))}
BoundComponentModels(e) ==
  UNION {Range(DataComponentModels(d)) :
           d \in {x \in Range(DataAttr(cfg, ParentAttr(e))) :
                    DataName(x) \in Range(effect[e].input.names)}}

\* The mesh models whose 'data' attribute holds a Data of component model c.
MeshModelsHolding(c) ==
  {m \in Meshes : \E d \in Range(DataAttr(cfg, m)) : c \in Range(DataComponentModels(d))}

\* C1: while an Effect is Unbound (inputDimension = 0) a change of the input
\* selector does not throw, leaves the Effect as it was and runs no
\* recompute, and no notification at all takes the Effect out of Unbound.
C1_UnboundInputIsNoop ==
  [][\A e \in Effects :
       ~Bound(e) =>
         /\ effect'[e].inputDimension = 0
         /\ input'[e] # input[e] =>
              (effect'[e] = effect[e] /\ error' = "none" /\ recomputed'[e] = 0)]_vars

C1_Witness ==
  \E e \in Effects : ~Bound(e) /\ input[e] = Str("u") /\ error = "none"

\* C2: every Block the Scene holds has, on all three axes, the scale
\* 1 / max(boundingSphereRadius over the Scene's children).
C2_SceneSharesOneScale ==
  \A i \in 1..Len(scene) :
    /\ \A j \in 1..Len(scene) :
         BoundingSphereRadius(block[scene[j]].vertices) <= block[scene[i]].scale[1].den
    /\ \E j \in 1..Len(scene) :
         BoundingSphereRadius(block[scene[j]].vertices) = block[scene[i]].scale[1].den
    /\ block[scene[i]].scale[1].num = 1
    /\ block[scene[i]].scale[2] = block[scene[i]].scale[1]
    /\ block[scene[i]].scale[3] = block[scene[i]].scale[1]

\* The scale s = 1 / r on every axis of every block of the list, r being the
\* largest bounding sphere radius of the blocks of the list.
ListScaled(blocks, list) ==
  \E r \in {BoundingSphereRadius(blocks[list[j]].vertices) : j \in 1..Len(list)} :
    /\ \A j \in 1..Len(list) : BoundingSphereRadius(blocks[list[j]].vertices) <= r
    /\ \A j \in 1..Len(list) :
         blocks[list[j]].scale = <<[num |-> 1, den |-> r], [num |-> 1, den |-> r],
                                   [num |-> 1, den |-> r]>>

\* C3: updateChildren, at construction and on every replacement of the
\* children list by a non-empty list, gives every block of the list the same
\* scale 1 / (largest bounding sphere radius of the list) on all three axes.
C3_UpdateChildrenScalesList ==
  /\ (children # <<>> => ListScaled(block, children))
  /\ [][(children' # children /\ children' # <<>>) => ListScaled(block', children')]_vars

\* The list <<m1, m2>> (radii 2 and 4) installed in place of <<m3>>: m1,
\* which no earlier list held, and m2 are at scale 1/4.
C3_Witness ==
  /\ children = <<"m1", "m2">>
  /\ scene = <<"m3", "m1", "m2">>
  /\ BoundingSphereRadius(block["m1"].vertices) = 2
  /\ BoundingSphereRadius(block["m2"].vertices) = 4
  /\ \A m \in Range(children) :
       block[m].scale = <<[num |-> 1, den |-> 4], [num |-> 1, den |-> 4], [num |-> 1, den |-> 4]>>

\* C4: the Scene's children are exactly the blocks of the current children
\* list, in list order, each present once.
C4_SceneIsChildrenList == scene = children

\* A notification of the vertices of the parent of e, of the array of a
\* component of the Data e is bound to, or of min / max / value of e.
C5_Notified(e) ==
  \/ vertices'[ParentAttr(e)] # vertices[ParentAttr(e)]
  \/ \E c \in BoundComponentModels(e) : array'[c] # array[c]
  \/ min'[e] # min[e]
  \/ max'[e] # max[e]
  \/ value'[e] # value[e]

\* C5: a notification that changes the vertices of the parent, the array of
\* a component of the bound Data, or min / max / value of the Effect, and
\* that the core accepts, runs recompute() of the Bound Effect exactly once;
\* a rejected one, and a notification of anything else but the input
\* selector, runs none.

C5_OneRecomputePerChange ==
  [][\A e \in Effects :
       Bound(e) =>
         /\ (C5_Notified(e) /\ error' = "none") => recomputed'[e] = 1
         /\ (C5_Notified(e) /\ error' # "none") => recomputed'[e] = 0
         /\ (~C5_Notified(e) /\ input'[e] = input[e]) => recomputed'[e] = 0]_vars

C5_Witness ==
  \E e \in Effects :
    /\ Bound(e) /\ recomputed[e] = 1 /\ error = "none"
    /\ vertices[ParentAttr(e)] = VertsLong
    /\ array["c1"] = Arr3b
    /\ min[e] = 1

\* A vertices change of mesh m to a shorter buffer of triples with an index
\* of triangle_indices at or beyond its vertex count.
C6_ShortOutOfRange(m) ==
  /\ vertices'[m] # vertices[m]
  /\ Len(vertices'[m]) % 3 = 0
  /\ Len(vertices'[m]) < Len(block[m].vertices)
  /\ \E i \in 1..Len(triangleIndices(m)) : 3 * triangleIndices(m)[i] >= Len(vertices'[m])

\* C6: a vertices change to a shorter buffer of triples that leaves an index
\* of triangle_indices out of range fails with IndexOutOfRange; and a
\* notification whose handler fails changes no core object.

C6_FailedChangeKeepsState ==
  [][/\ \A m \in Meshes : C6_ShortOutOfRange(m) => error' = "IndexOutOfRange"
     /\ error' # "none" =>
          (block' = block /\ effect' = effect /\ component' = component /\ scene' = scene
           /\ \A e \in Effects : recomputed'[e] = 0)]_vars

C6_Witness ==
  /\ error = "IndexOutOfRange"
  /\ vertices["m1"] = VertsShort
  /\ block["m1"].vertices = VertsLong

\* A Bound Effect has dimension 1 or 3 and names fields of its parent only.
C7_BoundNamesKnown ==
  \A e \in Effects :
    /\ effect[e].inputDimension \in {0, 1, 3}
    /\ Bound(e) => Range(effect[e].input.names) \subseteq ParentFieldNames(e)

\* C7: a selector that names a field absent from the Data of the parent is
\* refused with UnknownField and the Effect left as it was; a selector that
\* is bound runs recompute(); so a Bound Effect has dimension 1 or 3 and
\* every name of its selector is a field of the parent.

C7_BindInput ==
  /\ []C7_BoundNamesKnown
  /\ [][\A e \in Effects :
          /\ (input'[e] # input[e] /\ Bound(e)
              /\ ~(Range(input'[e].names) \subseteq ParentFieldNames(e)))
               => (error' = "UnknownField" /\ effect'[e] = effect[e])
          /\ effect'[e].input # effect[e].input => (Bound(e)' /\ recomputed'[e] = 1)]_vars

C7_Witness ==
  \E e \in Effects :
    /\ error = "UnknownField"
    /\ input[e] = Str("w")
    /\ effect[e].input = Str("v")
    /\ effect[e].inputDimension = 1

\* The dimension the shape of a selector attribute stands for.
C8_ShapeDimension(raw) ==
  IF raw.kind = "string" THEN 1
  ELSE IF raw.kind = "list" /\ Len(raw.names) = 3 THEN 3
  ELSE 0

\* C8: inputDimension is 0 for the unset selector, 1 for a field name and 3
\* for a list of three field names, for the selector the model forwards at
\* construction (unset, Unbound) and on a change of the input of a Bound
\* Effect (the names being fields of the parent).
C8_DimensionFollowsShape ==
  \A e \in Effects :
    (IF input[e] = Null THEN ~Bound(e)
     ELSE Bound(e) /\ Range(input[e].names) \subseteq ParentFieldNames(e))
      => effect[e].inputDimension = C8_ShapeDimension(input[e])

\* C9: the vertices of every Block are triples, and the array of every
\* component of every Data the Block holds has one value per vertex.
C9_BlockDataMatchesVertices ==
  \A m \in Meshes :
    /\ Len(block[m].vertices) % 3 = 0
    /\ \A c \in Components :
         m \in MeshModelsHolding(c) =>
           Len(component[c]) = ComponentArity * VertexCount(block[m].vertices)

\* A change of the array of component c to a length that is no multiple of
\* the arity or differs from the vertex count of a mesh holding its Data.
C10_Mismatch(c) ==
  /\ array'[c] # array[c]
  /\ \/ Len(array'[c]) % ComponentArity # 0
     \/ \E m \in MeshModelsHolding(c) :
          Len(array'[c]) # ComponentArity * VertexCount(block[m].vertices)

\* C10: a change of a component's array to one whose length is no multiple
\* of the arity, or differs from the vertex count of a Block holding the
\* component's Data, fails with DimensionMismatch and the component keeps
\* its array.

C10_MismatchedArrayRefused ==
  [][\A c \in Components :
       C10_Mismatch(c) => (error' = "DimensionMismatch" /\ component'[c] = component[c])]_vars

C10_Witness ==
  /\ error = "DimensionMismatch"
  /\ array["c1"] = Arr4
  /\ component["c1"] = Arr3b
  /\ block["m1"].vertices = VertsR2

\* C11: when the handler of a change notification has returned, the core
\* object holds the committed new value of the property, for every mutable
\* property: vertices, data, default colour, default alpha, min, max, value,
\* input selector and children list.
C11_CoreHoldsCommittedValue ==
  [][error' = "none" =>
       /\ \A m \in Meshes :
            /\ vertices'[m] # vertices[m] => block'[m].vertices = vertices'[m]
            /\ data'[m] # data[m] => block'[m].data = data'[m]
       /\ \A b \in Blocks :
            /\ default_color'[b] # default_color[b] =>
                 appearance'[b].defaultColor = default_color'[b]
            /\ default_alpha'[b] # default_alpha[b] =>
                 appearance'[b].defaultAlpha = default_alpha'[b]
       /\ \A e \in Effects :
            /\ min'[e] # min[e] => effect'[e].min = min'[e]
            /\ max'[e] # max[e] => effect'[e].max = max'[e]
            /\ value'[e] # value[e] => effect'[e].value = value'[e]
            /\ input'[e] # input[e] => effect'[e].input = get_input(input'[e])
       /\ children' # children => scene' = children']_vars

\* C12: a Threshold whose min is above its max holds an output of zero
\* vertices and zero indices, and the notification that raised min above
\* max (or lowered max below min) returned without error, the other bound
\* being still the old one.
C12_EmptyRangeEmptyMesh ==
  /\ [](\A e \in Effects :
          (effect[e].kind = "Threshold" /\ Bound(e) /\ min[e] > max[e]) =>
            (output[e].vertices = <<>> /\ output[e].indices = <<>>))
  /\ [][\A e \in Effects :
          (/\ effect[e].kind = "Threshold"
           /\ min'[e] # min[e] \/ max'[e] # max[e]
           /\ min'[e] > max'[e]) =>
            (error' = "none" /\ (Bound(e) => recomputed'[e] = 1))]_vars

\* min was raised to 1 while max is still 0: the Bound Threshold recomputed
\* and holds the empty mesh.
C12_Witness ==
  \E e \in Effects :
    /\ effect[e].kind = "Threshold"
    /\ Bound(e)
    /\ min[e] = 1
    /\ max[e] = 0
    /\ effect[e].min = 1
    /\ effect[e].max = 0
    /\ recomputed[e] = 1
    /\ error = "none"
    /\ output[e] = EmptyMesh

\* C13: between two notifications no partially updated state is left: every
\* Effect holds the committed parameters of its model, and the output of a
\* Bound Effect is the full recompute of the parent, the bound field and
\* the parameters as they are now (an Unbound Effect holds no geometry).
C13_NoPartialState ==
  \A e \in Effects :
    /\ effect[e].kind \in {"IsoColor", "Threshold"} =>
         (effect[e].min = min[e] /\ effect[e].max = max[e])
    /\ effect[e].kind = "IsoSurface" => effect[e].value = value[e]
    /\ output[e] = IF Bound(e) THEN Recompute(effect[e], block, data_components, component)
                   ELSE EmptyMesh

\* A Bound Threshold whose last notification recomputed it to a mesh that
\* is not empty.
C13_Witness ==
  \E e \in Effects :
    /\ effect[e].kind = "Threshold"
    /\ Bound(e)
    /\ max[e] = 1
    /\ recomputed[e] = 1
    /\ output[e].vertices # <<>>

\* The core state other than the appearance of the Blocks is left as it
\* was, and no Effect recomputed.
GeometryUnchanged ==
  /\ block' = block
  /\ effect' = effect
  /\ component' = component
  /\ data_components' = data_components
  /\ scene' = scene
  /\ output' = output
  /\ \A e \in Effects : recomputed'[e] = 0

\* C14: a default_color notification changes only defaultColor of its
\* Block, a default_alpha notification only defaultAlpha: vertices,
\* connectivity, data, scale, bound input, inputDimension, the Effect
\* parameters and every output are unchanged and nothing is recomputed.
C14_AppearanceOnly ==
  [][\A b \in Blocks :
       /\ default_color'[b] # default_color[b] =>
            /\ appearance' = [appearance EXCEPT ![b].defaultColor = default_color'[b]]
            /\ GeometryUnchanged
            /\ error' = "none"
       /\ default_alpha'[b] # default_alpha[b] =>
            /\ appearance' = [appearance EXCEPT ![b].defaultAlpha = default_alpha'[b]]
            /\ GeometryUnchanged
            /\ error' = "none"]_vars

\* The mesh and the Bound Effect on it, constructed with one colour and one
\* alpha, differ in both after notifications.
C14_Witness ==
  /\ Blocks = {"m1", "e1"}
  /\ Bound("e1")
  /\ default_color["m1"] # default_color["e1"]
  /\ appearance["m1"].defaultColor = default_color["m1"]
  /\ appearance["e1"].defaultColor = default_color["e1"]
  /\ default_alpha["m1"] # default_alpha["e1"]
  /\ appearance["m1"].defaultAlpha # appearance["e1"].defaultAlpha
  /\ output["e1"] # EmptyMesh

\* C15: a Data holds exactly the components it was constructed with, in
\* order, and the array of each component is the array of the most recent
\* array change of its model.
C15_LatestArrayHeld ==
  /\ \A d \in DataModels : data_components[d] = DataComponents(d)
  /\ \A c \in Components : component[c] = array[c]

\* C15, amended: a Data holds exactly the components it was constructed
\* with, in order, whatever the 'components' attribute becomes, and the
\* array of each component is the array of the most recent array change the
\* core accepted: a refused change leaves the array as it was.
C15_LatestAcceptedArrayHeld ==
  /\ [](\A d \in DataModels : data_components[d] = DataComponents(d))
  /\ [][\A c \in Components :
          component'[c] = IF array'[c] # array[c] /\ error' = "none"
                          THEN array'[c]
                          ELSE component[c]]_vars

\* The 'components' attribute of Data "u" was emptied and the array of c1
\* replaced: the Data still holds c1, whose array is the new one.
C15_Witness ==
  /\ components["dU"] = <<>>
  /\ data_components["dU"] = <<"c1">>
  /\ array["c1"] = Arr3b
  /\ component["c1"] = Arr3b
  /\ error = "none"

\* C16: after BlockModel.initialize and between notifications the Block of
\* every model has the model's default_color as defaultColor and the
\* model's default_alpha as defaultAlpha.
C16_AppearanceMatchesModel ==
  \A b \in Blocks :
    /\ appearance[b].defaultColor = default_color[b]
    /\ appearance[b].defaultAlpha = default_alpha[b]

\* C17: no method of the Renderer (resize, the backgroundColor setter,
\* dispose) is invoked before renderer.initialize(), and initialize() is
\* invoked at most once.
C17_NothingBeforeInitialize ==
  /\ ~renderer.early
  /\ renderer.initialized <= 1

\* C18: once remove() has called renderer.dispose(), no method of the
\* Renderer is invoked any more: neither initialize() nor resize() nor the
\* backgroundColor setter.
C18_NothingAfterDispose == ~renderer.late

\* C19: once the callback of displayed has run, and after every
\* notification from then on, renderer.backgroundColor is the model's
\* current background_color, whenever the colour was changed.
C19_BackgroundColorNotLost ==
  view.listening => renderer.backgroundColor = background_color

\* The view was rendered, displayed resolved and its callback ran once; the
\* model's colour is no longer the default and the renderer has it.
C19_Witness ==
  /\ view.listening
  /\ ~view.removed
  /\ renderer.initialized = 1
  /\ background_color = "#000"
  /\ renderer.backgroundColor = "#000"

====
